---- MODULE Spec2Model ----
(***************************************************************************)
(* A model of the vector-data-cube places plugin of xcube server           *)
(* (xcube_vdc_plugin/api/context.py): the resolution of the configured     *)
(* dataset entries, the load loop that opens the cubes and turns them into *)
(* feature sets, the materialization of place groups in the cache of the   *)
(* places context, and the normalisation of the time properties.           *)
(*                                                                         *)
(* Strings that the code takes apart or puts together (paths, patterns,    *)
(* identifiers, titles) are sequences of one-character strings.  Values    *)
(* that are only compared or looked up are TLA+ strings.  A Python dict is *)
(* a function whose DOMAIN is the set of its keys, so that "k in d" is     *)
(* k \in DOMAIN d.                                                         *)
(***************************************************************************)
EXTENDS Integers, Sequences, FiniteSets, TLC

VARIABLES
    \* get_dataset_configs_from_stores
    all_dataset_configs,  \* the list the function builds
    scan,                 \* the iteration of the loop over the entries that ran last
    rstatus,              \* "scanning", "returned" or the error raised
    \* _clean_time_name
    properties,           \* the property mapping of one feature
    raw_properties,       \* the mapping before the call
    cstatus,              \* "ready", "returned" or the error raised
    \* update_places
    vdc_configs,          \* self._vdc_configs
    pc,                   \* position of update_places
    idx,                  \* position of the loop of _read_vector_datacubes_as_geodataframes
    gdfs,                 \* the feature sets read so far
    opened,               \* the calls of data_store.open_data of this run
    step,                 \* what the iteration or materialization that ran last saw
    cache,                \* the place group cache of the places context
    registered,           \* the calls of add_place_group
    mpos,                 \* position of the loop over gdfs
    runs,                 \* number of update_places runs started
    cache0,               \* the cache when the current run started
    registered0           \* the registrations when the current run started

resolve_vars == <<all_dataset_configs, scan, rstatus>>
clean_vars == <<properties, raw_properties, cstatus>>
update_vars == <<vdc_configs, pc, idx, gdfs, opened, step, cache, registered,
                 mpos, runs, cache0, registered0>>
vars == <<resolve_vars, clean_vars, update_vars>>

None == "None"

(***************************************************************************)
(* Bounds of the model.                                                    *)
(***************************************************************************)
MaxEntries == 2   \* dataset entries scanned by one resolution
MaxIds == 2       \* dataset ids a store advertises

(***************************************************************************)
(* Strings.                                                                *)
(***************************************************************************)
STORE_DS_ID_SEPARATOR == "~"

\* Sequences over S of length at most n.
SeqUpTo(S, n) == UNION {[1..k -> S] : k \in 0..n}

\* d.get(key, default)
get(d, key, default) == IF key \in DOMAIN d THEN d[key] ELSE default

\* def _is_wildcard(string): "?" in string or "*" in string
_is_wildcard(string) ==
    \E i \in 1..Len(string) : string[i] = "?" \/ string[i] = "*"

\* The printable ASCII characters in the order of their code points, which is
\* the order Python compares one-character strings in.  The backtick cannot
\* be written in a string here: its place is held by a name.
Ascii ==
    <<" ", "!", "\"", "#", "$", "%", "&", "'", "(", ")", "*", "+",
      ",", "-", ".", "/", "0", "1", "2", "3", "4", "5", "6", "7",
      "8", "9", ":", ";", "<", "=", ">", "?", "@", "A", "B", "C",
      "D", "E", "F", "G", "H", "I", "J", "K", "L", "M", "N", "O",
      "P", "Q", "R", "S", "T", "U", "V", "W", "X", "Y", "Z", "[",
      "\\", "]", "^", "_", "backtick", "a", "b", "c", "d", "e", "f", "g",
      "h", "i", "j", "k", "l", "m", "n", "o", "p", "q", "r", "s",
      "t", "u", "v", "w", "x", "y", "z", "{", "|", "}", "~">>

\* ord(c) for a printable ASCII character
Ord(c) == 31 + (CHOOSE i \in 1..Len(Ascii) : Ascii[i] = c)

\* string.find(c, k, hi + 1) with 1-based positions: the first position from
\* k to hi that holds c, 0 if there is none.
RECURSIVE find(_, _, _, _)
find(string, c, k, hi) ==
    IF k > hi \/ k > Len(string) THEN 0
    ELSE IF string[k] = c THEN k
    ELSE find(string, c, k + 1, hi)

\* fnmatch.translate at a "[" whose successor is at position i: the position
\* of the "]" that closes the character class, 0 if none does.
class_end(pat, i) ==
    LET n == Len(pat)
        j1 == IF i <= n /\ pat[i] = "!" THEN i + 1 ELSE i
        j2 == IF j1 <= n /\ pat[j1] = "]" THEN j1 + 1 ELSE j1
    IN find(pat, "]", j2, n)

\* The chunks that the hyphens from position k on cut stuff into; i is where
\* the current chunk starts.  A hyphen that ends stuff goes to the last chunk.
RECURSIVE class_chunks(_, _, _, _)
class_chunks(stuff, i, k, chunks) ==
    LET h == find(stuff, "-", k, Len(stuff))
    IN IF h = 0
       THEN IF i <= Len(stuff) THEN Append(chunks, SubSeq(stuff, i, Len(stuff)))
            ELSE [chunks EXCEPT ![Len(chunks)] = @ \o <<"-">>]
       ELSE class_chunks(stuff, h + 1, h + 3, Append(chunks, SubSeq(stuff, i, h - 1)))

\* "Remove empty ranges": from the last pair of chunks to the first, a range
\* whose start is greater than its end is dropped and the two chunks are joined.
RECURSIVE remove_empty_ranges(_, _)
remove_empty_ranges(chunks, k) ==
    IF k < 1 THEN chunks
    ELSE IF Ord(chunks[k][Len(chunks[k])]) > Ord(chunks[k + 1][1])
    THEN remove_empty_ranges(
             [m \in 1..(Len(chunks) - 1) |->
                 IF m < k THEN chunks[m]
                 ELSE IF m = k THEN SubSeq(chunks[k], 1, Len(chunks[k]) - 1)
                                    \o SubSeq(chunks[k + 1], 2, Len(chunks[k + 1]))
                 ELSE chunks[m + 1]],
             k - 1)
    ELSE remove_empty_ranges(chunks, k - 1)

\* The characters of a chunk as they stand in the regular expression: each
\* one a literal, the backslash, the hyphen and "&", "~", "|" by their escape.
literals(chunk) == [x \in 1..Len(chunk) |-> [ch |-> chunk[x], range |-> FALSE]]

\* '-'.join(chunks) from the m-th chunk on: the hyphen that joins two chunks
\* is the only one that is not escaped.
RECURSIVE join_chunks(_, _)
join_chunks(chunks, m) ==
    IF m > Len(chunks) THEN <<>>
    ELSE literals(chunks[m])
         \o (IF m < Len(chunks) THEN <<[ch |-> "-", range |-> TRUE]>> ELSE <<>>)
         \o join_chunks(chunks, m + 1)

\* The set of a regular expression as re parses it, from the p-th item on: an
\* item that an unescaped hyphen follows starts a range to the item after the
\* hyphen; every other item, an unescaped hyphen among them, is a literal.
RECURSIVE set_matches(_, _, _)
set_matches(items, p, c) ==
    IF p > Len(items) THEN FALSE
    ELSE IF p + 1 <= Len(items) /\ items[p + 1].range
    THEN IF p + 2 > Len(items)
         THEN items[p].ch = c \/ c = "-"
         ELSE \/ Ord(items[p].ch) <= Ord(c) /\ Ord(c) <= Ord(items[p + 2].ch)
              \/ set_matches(items, p + 3, c)
    ELSE items[p].ch = c \/ set_matches(items, p + 1, c)

\* Whether the character c is in the class "[" stuff "]" of a pattern: the
\* regular expression that translate builds for it matches c.  Without a
\* hyphen stuff is one chunk.  The class is negated when what is left of
\* stuff starts with "!", whether the pattern had it there or the removal of
\* an empty range brought it there.
class_matches(stuff, c) ==
    LET has_hyphen == \E m \in 1..Len(stuff) : stuff[m] = "-"
        chunks == IF has_hyphen
                  THEN LET cut == class_chunks(stuff, 1, IF stuff[1] = "!" THEN 3 ELSE 2, <<>>)
                       IN remove_empty_ranges(cut, Len(cut) - 1)
                  ELSE <<stuff>>
        items == join_chunks(chunks, 1)
    IN IF items = <<>> THEN FALSE
       ELSE IF items = literals(<<"!">>) THEN TRUE
       ELSE IF items[1] = [ch |-> "!", range |-> FALSE]
       THEN ~set_matches(items, 2, c)
       ELSE set_matches(items, 1, c)

\* fnmatch.fnmatch(name, pat) on a POSIX system (normcase is the identity):
\* whether name from position i on matches pat from position j on.  "*"
\* matches any run of characters, "?" any single character, "[...]" the
\* characters of the class, a "[" that no "]" closes and every other
\* character itself.
RECURSIVE fnmatch_from(_, _, _, _)
fnmatch_from(name, pat, i, j) ==
    IF j > Len(pat) THEN i > Len(name)
    ELSE IF pat[j] = "*"
         THEN \/ fnmatch_from(name, pat, i, j + 1)
              \/ (i <= Len(name) /\ fnmatch_from(name, pat, i + 1, j))
    ELSE IF pat[j] = "[" /\ class_end(pat, j + 1) # 0
         THEN LET e == class_end(pat, j + 1)
              IN /\ i <= Len(name)
                 /\ class_matches(SubSeq(pat, j + 1, e - 1), name[i])
                 /\ fnmatch_from(name, pat, i + 1, e + 1)
         ELSE /\ i <= Len(name)
              /\ (pat[j] = "?" \/ pat[j] = name[i])
              /\ fnmatch_from(name, pat, i + 1, j + 1)

fnmatch(name, pat) == fnmatch_from(name, pat, 1, 1)

(***************************************************************************)
(* Resolution of the dataset entries.                                      *)
(***************************************************************************)
InvalidServerConfig == "InvalidServerConfig"
TypeError == "TypeError"
KeyError == "KeyError"

\* The result of a call: the value returned, or the error raised.
Ok(v) == [raised |-> None, value |-> v]
Raise(e) == [raised |-> e]

\* dataset_config = dict(StoreInstanceId=store_instance_id, **dataset_config_base)
\* raises TypeError for a base that has the key StoreInstanceId itself: the
\* keyword is given twice.  dataset_config["Path"] raises KeyError for a
\* config that has an Identifier and no Path.
_get_selected_dataset_config(store_dataset_id, store_instance_id, dataset_config_base) ==
    IF "StoreInstanceId" \in DOMAIN dataset_config_base THEN Raise(TypeError)
    ELSE LET dataset_config == dataset_config_base @@ [StoreInstanceId |-> store_instance_id]
         IN IF "Identifier" \in DOMAIN dataset_config
               /\ "Path" \notin DOMAIN dataset_config
            THEN Raise(KeyError)
            ELSE IF "Identifier" \in DOMAIN dataset_config
               /\ dataset_config["Path"] # store_dataset_id
            THEN Raise(InvalidServerConfig)
            ELSE IF "Identifier" \notin DOMAIN dataset_config
            THEN Ok([Path |-> store_dataset_id,
                     Identifier |-> store_instance_id \o <<STORE_DS_ID_SEPARATOR>>
                                       \o store_dataset_id]
                    @@ dataset_config)
            ELSE Ok(dataset_config)

\* dataset_id_pattern = store_dataset_config.get("Path", "*")
dataset_id_pattern(store_dataset_config) == get(store_dataset_config, "Path", <<"*">>)

\* The loop over store_dataset_ids (lines 131-139): the configs appended for
\* the ids from position k on, or the error of the first selection that fails.
RECURSIVE select_matching(_, _, _, _)
select_matching(store_dataset_ids, k, store_instance_id, store_dataset_config) ==
    IF k > Len(store_dataset_ids) THEN Ok(<<>>)
    ELSE IF fnmatch(store_dataset_ids[k], dataset_id_pattern(store_dataset_config))
    THEN LET r == _get_selected_dataset_config(store_dataset_ids[k], store_instance_id,
                                               store_dataset_config)
         IN IF r.raised # None THEN r
            ELSE LET rest == select_matching(store_dataset_ids, k + 1, store_instance_id,
                                             store_dataset_config)
                 IN IF rest.raised # None THEN rest ELSE Ok(<<r.value>> \o rest.value)
    ELSE select_matching(store_dataset_ids, k + 1, store_instance_id, store_dataset_config)

\* Whether the loop body calls data_store.get_data_ids (lines 126-130).
consults_store(store_dataset_config) ==
    _is_wildcard(dataset_id_pattern(store_dataset_config))

\* One iteration of the loop over store_dataset_configs (lines 125-147).
expand_entry(store_instance_id, store_dataset_config, store_dataset_ids) ==
    IF _is_wildcard(dataset_id_pattern(store_dataset_config))
    THEN select_matching(store_dataset_ids, 1, store_instance_id, store_dataset_config)
    ELSE LET r == _get_selected_dataset_config(store_dataset_config["Path"], store_instance_id,
                                               store_dataset_config)
         IN IF r.raised # None THEN r ELSE Ok(<<r.value>>)

\* The inputs of the resolution.  The schema of the configuration requires a
\* Path and allows an Identifier and a StoreInstanceId; the method itself also
\* takes an entry without Path.
\* data_store_pool.store_instance_ids, in the order of the pool
store_instance_ids == <<<<"S", "1">>, <<"S", "2">>>>
Paths == {<<"r", "*">>, <<"?", "s">>, <<"[", "r", "p", "]", "*">>, <<"r", "s">>}
UserIdentifiers == {<<"X">>}
PlainEntries ==
    {[Path |-> p] : p \in Paths}
    \cup {[Path |-> p, Identifier |-> i] : p \in Paths, i \in UserIdentifiers}
    \cup {[Title |-> <<"T">>]}
    \cup {[Title |-> <<"T">>, Identifier |-> i] : i \in UserIdentifiers}
DatasetEntries ==
    PlainEntries \cup {[StoreInstanceId |-> <<"Z">>] @@ entry : entry \in PlainEntries}
AdvertisedIds == {<<"r", "s">>, <<"p", "s">>, <<"r", "*">>}

NoScan == [kind |-> "none"]

ResolveInit ==
    /\ all_dataset_configs = <<>>
    /\ scan = NoScan
    /\ rstatus = "scanning"

\* One iteration of the loops of get_dataset_configs_from_stores: the next
\* entry of the pool, of the store that owns it (the store scanned last or a
\* later one), and the ids the store lists.
ScanEntry ==
    /\ rstatus = "scanning"
    /\ \/ scan = NoScan
       \/ scan.kind = "entry" /\ scan.n < MaxEntries
    /\ \E store \in (IF scan = NoScan THEN 1 ELSE scan.store)..Len(store_instance_ids),
          store_dataset_config \in DatasetEntries,
          store_dataset_ids \in SeqUpTo(AdvertisedIds, MaxIds) :
          LET store_instance_id == store_instance_ids[store]
              r == expand_entry(store_instance_id, store_dataset_config, store_dataset_ids)
          IN /\ scan' = [kind |-> "entry",
                         n |-> IF scan = NoScan THEN 1 ELSE scan.n + 1,
                         store |-> store,
                         store_instance_id |-> store_instance_id,
                         store_dataset_config |-> store_dataset_config,
                         store_dataset_ids |-> store_dataset_ids,
                         consulted |-> consults_store(store_dataset_config),
                         before |-> all_dataset_configs]
             /\ IF r.raised # None
                THEN /\ rstatus' = r.raised
                     /\ UNCHANGED all_dataset_configs
                ELSE /\ all_dataset_configs' = all_dataset_configs \o r.value
                     /\ UNCHANGED rstatus
    /\ UNCHANGED <<clean_vars, update_vars>>

\* return all_dataset_configs (line 148)
ReturnConfigs ==
    /\ rstatus = "scanning"
    /\ rstatus' = "returned"
    /\ UNCHANGED <<all_dataset_configs, scan, clean_vars, update_vars>>

(***************************************************************************)
(* The normalisation of the time properties of a feature.                  *)
(***************************************************************************)
ParserError == "ParserError"

\* dateutil.parser.parse(value).isoformat() for the time strings of the model.
parse_isoformat(value) ==
    CASE value = "2020-01-02T03:04:05Z" -> "2020-01-02T03:04:05+00:00"
      [] value = "2021-03-04" -> "2021-03-04T00:00:00"
      [] value = "5 Jan 2022 10:30" -> "2022-01-05T10:30:00"
      [] OTHER -> ParserError

illegal_names == <<"datetime", "timestamp", "date-time", "date">>

\* del d[key]
del(d, key) == [k \in DOMAIN d \ {key} |-> d[k]]

\* A variant of the loop that stops at the first illegal name it finds.
RECURSIVE clean_from_first_only(_, _)
clean_from_first_only(props, k) ==
    IF k > Len(illegal_names) THEN [raised |-> None, value |-> props]
    ELSE LET n == illegal_names[k]
         IN IF n \in DOMAIN props
            THEN IF parse_isoformat(props[n]) = ParserError
                 THEN [raised |-> ParserError, value |-> props]
                 ELSE [raised |-> None,
                       value |-> del(("time" :> parse_isoformat(props[n])) @@ props, n)]
            ELSE clean_from_first_only(props, k + 1)

\* The loop of _clean_time_name from the k-th illegal name on.  The mapping is
\* changed in place: when a value fails to parse, the substitutions made for
\* the names before it stay.
RECURSIVE clean_from(_, _)
clean_from(props, k) ==
    IF k > Len(illegal_names) THEN [raised |-> None, value |-> props]
    ELSE LET n == illegal_names[k]
         IN IF n \in DOMAIN props
            THEN IF parse_isoformat(props[n]) = ParserError
                 THEN [raised |-> ParserError, value |-> props]
                 ELSE clean_from(del(("time" :> parse_isoformat(props[n])) @@ props, n), k + 1)
            ELSE clean_from(props, k + 1)

_clean_time_name(props) == clean_from(props, 1)

TimeStrings == {"2020-01-02T03:04:05Z", "2021-03-04", "5 Jan 2022 10:30", "garbage"}
PropertyNames == {"datetime", "timestamp", "date-time", "date", "time"}
PropertyMappings == UNION {[D -> TimeStrings] : D \in SUBSET PropertyNames}

CleanInit ==
    /\ properties \in PropertyMappings
    /\ raw_properties = properties
    /\ cstatus = "ready"

\* VdcPlacesPluginContext._clean_time_name(feature['properties'])
CleanTimeName ==
    /\ cstatus = "ready"
    /\ LET r == _clean_time_name(properties)
       IN /\ properties' = r.value
          /\ cstatus' = IF r.raised # None THEN r.raised ELSE "returned"
    /\ UNCHANGED <<raw_properties, resolve_vars, update_vars>>

(***************************************************************************)
(* The load loop: opening the cubes and turning them into feature sets.    *)
(***************************************************************************)
DataStoreError == "DataStoreError"

VDC_OPENER_PREFIX ==
    <<"v", "e", "c", "t", "o", "r", "d", "a", "t", "a", "c", "u", "b", "e">>

\* str.startswith
startswith(string, prefix) ==
    Len(string) >= Len(prefix) /\ SubSeq(string, 1, Len(prefix)) = prefix

\* str(n) for a natural number n
RECURSIVE DecStr(_)
DecStr(n) ==
    LET digit(d) == CASE d = 0 -> "0" [] d = 1 -> "1" [] d = 2 -> "2" [] d = 3 -> "3"
                      [] d = 4 -> "4" [] d = 5 -> "5" [] d = 6 -> "6" [] d = 7 -> "7"
                      [] d = 8 -> "8" [] d = 9 -> "9"
    IN IF n < 10 THEN <<digit(n)>> ELSE DecStr(n \div 10) \o <<digit(n % 10)>>

\* A variant of the opener loop without its break: the last match is opened.
RECURSIVE select_opener_last(_, _)
select_opener_last(data_opener_ids, k) ==
    IF k > Len(data_opener_ids) THEN 0
    ELSE LET later == select_opener_last(data_opener_ids, k + 1)
         IN IF later # 0 THEN later
            ELSE IF startswith(data_opener_ids[k], VDC_OPENER_PREFIX) THEN k ELSE 0

\* The loop over data_opener_ids (lines 244-251) from position k on: the
\* position of the opener that open_data is called with, 0 when there is none.
RECURSIVE select_opener(_, _)
select_opener(data_opener_ids, k) ==
    IF k > Len(data_opener_ids) THEN 0
    ELSE IF startswith(data_opener_ids[k], VDC_OPENER_PREFIX) THEN k
    ELSE select_opener(data_opener_ids, k + 1)

\* A variant of the extension that counts the slices from 0.
extension_from_zero(label, i, label_coord_is_geometry_name) ==
    IF ~label_coord_is_geometry_name THEN label ELSE DecStr(i - 1)

\* extension = label if label_coord is not geometry_name else i + 1, formatted
\* by the f-string; i is the 1-based position of the slice here.
extension(label, i, label_coord_is_geometry_name) ==
    IF ~label_coord_is_geometry_name THEN label ELSE DecStr(i)

\* "label_coord is geometry_name" (line 267).  Without a LabelCoord, get()
\* returns geometry_name itself.  A configured LabelCoord that spells the name
\* of the geometry coordinate is the same object only if the interpreter
\* shares the two strings: same_object is either.
label_coord_is_geometry(vdc_config, geometry_name, same_object) ==
    IF "LabelCoord" \notin DOMAIN vdc_config THEN TRUE
    ELSE IF vdc_config["LabelCoord"] = geometry_name THEN same_object
    ELSE FALSE

\* The feature set of slice i (lines 262-269), given that the config has a Title.
sub_gdf(vdc_config, vdc, same_object, i) ==
    LET geometry_name == vdc.geom_coords[1]
        label_coord == get(vdc_config, "LabelCoord", geometry_name)
        labels == vdc.coords[label_coord]
        ext == extension(labels[i], i,
                         label_coord_is_geometry(vdc_config, geometry_name, same_object))
    IN [attrs |-> [Title |-> vdc_config["Title"] \o <<" ", "-", " ">> \o ext,
                   Identifier |-> vdc_config["Identifier"] \o <<"_">> \o ext] @@ vdc_config,
        features |-> vdc.rows[i]]

\* vdc.xvec.to_geodataframe(): the rows of all the geometries.
RECURSIVE all_rows(_, _)
all_rows(rows, k) == IF k > Len(rows) THEN <<>> ELSE rows[k] \o all_rows(rows, k + 1)

\* Lines 255-277: the feature sets of an opened cube, or the KeyError of
\* attrs['Title'] for a config without Title.
to_geodataframes(vdc_config, vdc, same_object) ==
    IF get(vdc_config, "Split", FALSE)
    THEN LET geometry_name == vdc.geom_coords[1]
             labels == vdc.coords[get(vdc_config, "LabelCoord", geometry_name)]
         IN IF Len(labels) > 0 /\ "Title" \notin DOMAIN vdc_config
            THEN Raise(KeyError)
            ELSE Ok([i \in 1..Len(labels) |-> sub_gdf(vdc_config, vdc, same_object, i)])
    ELSE IF "Title" \notin DOMAIN vdc_config
         THEN Raise(KeyError)
         ELSE Ok(<<[attrs |-> vdc_config, features |-> all_rows(vdc.rows, 1)]>>)

\* A variant of the loop body that skips a dataset whose open fails.
read_one_skips_failed_open(vdc_config, env) ==
    LET k == select_opener(env.data_opener_ids, 1)
    IN IF k = 0 THEN [raised |-> None, opens |-> <<>>, value |-> <<>>]
       ELSE LET call == [data_id |-> vdc_config["Path"], opener_id |-> env.data_opener_ids[k]]
            IN IF env.open.kind = "raise"
               THEN [raised |-> None, opens |-> <<call>>, value |-> <<>>]
               ELSE LET r == to_geodataframes(vdc_config, env.open.vdc, env.same_object)
                    IN IF r.raised # None
                       THEN [raised |-> r.raised, opens |-> <<call>>, value |-> <<>>]
                       ELSE [raised |-> None, opens |-> <<call>>, value |-> r.value]

\* One iteration of the loop over self._vdc_configs (lines 229-277): the calls
\* of open_data it makes and the feature sets it appends, or the error that
\* leaves the loop.  env is what the store answers: the opener ids, and the
\* cube that open_data returns or its failure.
read_one(vdc_config, env) ==
    LET k == select_opener(env.data_opener_ids, 1)
    IN IF k = 0 THEN [raised |-> None, opens |-> <<>>, value |-> <<>>]
       ELSE LET call == [data_id |-> vdc_config["Path"], opener_id |-> env.data_opener_ids[k]]
            IN IF env.open.kind = "raise"
               THEN [raised |-> DataStoreError, opens |-> <<call>>, value |-> <<>>]
               ELSE LET r == to_geodataframes(vdc_config, env.open.vdc, env.same_object)
                    IN IF r.raised # None
                       THEN [raised |-> r.raised, opens |-> <<call>>, value |-> <<>>]
                       ELSE [raised |-> None, opens |-> <<call>>, value |-> r.value]

(***************************************************************************)
(* The materialization of the place groups.                                *)
(***************************************************************************)
\* The features of a place group: None, or a list.
NoFeatures == <<>>
Features(list) == <<list>>

\* Python's truth value of a string.
truthy(string) == string # <<>>

\* self._places_ctx.get_place_group_id_safe(place_group_config): the places
\* context derives the id from the Identifier of the config.
get_place_group_id_safe(place_group_config) == place_group_config["Identifier"]

\* The loop over feature_collection['features'] (lines 223-224) from feature k on.
RECURSIVE clean_features(_, _)
clean_features(features, k) ==
    IF k > Len(features) THEN Ok(<<>>)
    ELSE LET r == _clean_time_name(features[k])
         IN IF r.raised # None THEN Raise(r.raised)
            ELSE LET rest == clean_features(features, k + 1)
                 IN IF rest.raised # None THEN rest ELSE Ok(<<r.value>> \o rest.value)

\* A variant of load_gdf_place_group_features without the early return.
load_gdf_place_group_features_always(place_group, gdf) ==
    LET r == clean_features(gdf.features, 1)
    IN IF r.raised # None THEN [raised |-> r.raised, value |-> place_group]
       ELSE Ok([place_group EXCEPT !.features = Features(r.value)])

\* load_gdf_place_group_features: the place group after the call, which
\* changes it in place, and the error raised if any.
load_gdf_place_group_features(place_group, gdf) ==
    IF place_group.features # NoFeatures THEN Ok(place_group)
    ELSE LET r == clean_features(gdf.features, 1)
         IN IF r.raised # None THEN [raised |-> r.raised, value |-> place_group]
            ELSE Ok([place_group EXCEPT !.features = Features(r.value)])

\* The record built for an id that is not cached (lines 194-208).  The configs
\* of the model have no PropertyMapping, and the property mapping is empty.
new_place_group(place_group_config, place_group_id) ==
    [type |-> "FeatureCollection",
     features |-> NoFeatures,
     id |-> place_group_id,
     title |-> get(place_group_config, "Title", place_group_id),
     propertyMapping |-> <<>>,
     sourcePaths |-> "None",
     sourceEncoding |-> get(place_group_config, "CharacterEncoding", "utf-8")]

\* place_group_id = place_group_config.get("PlaceGroupRef"); if place_group_id:
place_group_ref_used(place_group_config) ==
    "PlaceGroupRef" \in DOMAIN place_group_config
    /\ truthy(place_group_config["PlaceGroupRef"])

\* A variant of _create_place_group that checks PlaceGroupRef after caching the record.
_create_place_group_checks_late(cached, place_group_config, gdf) ==
    LET place_group_id == get_place_group_id_safe(place_group_config)
        cached1 == IF place_group_id \in DOMAIN cached THEN cached
                   ELSE (place_group_id :> new_place_group(place_group_config,
                                                           place_group_id)) @@ cached
        r == load_gdf_place_group_features(cached1[place_group_id], gdf)
    IN IF place_group_ref_used(place_group_config)
       THEN [raised |-> InvalidServerConfig, cache |-> cached1]
       ELSE [raised |-> r.raised,
             cache |-> [cached1 EXCEPT ![place_group_id] = r.value],
             place_group_id |-> place_group_id]

\* _create_place_group: the cache after the call, the id of the place group
\* it returns, and the error raised if any.
_create_place_group(cached, place_group_config, gdf) ==
    IF place_group_ref_used(place_group_config)
    THEN [raised |-> InvalidServerConfig, cache |-> cached]
    ELSE LET place_group_id == get_place_group_id_safe(place_group_config)
             cached1 == IF place_group_id \in DOMAIN cached THEN cached
                        ELSE (place_group_id :> new_place_group(place_group_config,
                                                                place_group_id)) @@ cached
             r == load_gdf_place_group_features(cached1[place_group_id], gdf)
         IN [raised |-> r.raised,
             cache |-> [cached1 EXCEPT ![place_group_id] = r.value],
             place_group_id |-> place_group_id]

\* A variant of the end of the load loop: materialize as soon as one config is read.
read_complete_after_first(i, configs) == i > 1

\* The loop over self._vdc_configs has run through (lines 229, 278).
read_complete(i, configs) == i > Len(configs)

(***************************************************************************)
(* update_places, step by step.                                            *)
(***************************************************************************)
MaxConfigs == 2   \* resolved dataset configs of the context
MaxRuns == 2      \* runs of update_places
MaxOpeners == 2   \* opener ids a store lists for a dataset

NoStep == [kind |-> "none"]

UpdateInit(Configs) ==
    /\ vdc_configs \in SeqUpTo(Configs, MaxConfigs)
    /\ pc = "idle"
    /\ idx = 1
    /\ gdfs = <<>>
    /\ opened = <<>>
    /\ step = NoStep
    /\ cache = <<>>
    /\ registered = <<>>
    /\ mpos = 1
    /\ runs = 0
    /\ cache0 = <<>>
    /\ registered0 = <<>>

\* on_update calls update_places (lines 160-169).
StartRun ==
    /\ pc \in {"idle", "returned", "raised"}
    /\ runs < MaxRuns
    /\ runs' = runs + 1
    /\ pc' = IF Len(vdc_configs) = 0 THEN "returned" ELSE "read"
    /\ idx' = 1
    /\ gdfs' = <<>>
    /\ opened' = <<>>
    /\ mpos' = 1
    /\ step' = [kind |-> "start"]
    /\ cache0' = cache
    /\ registered0' = registered
    /\ UNCHANGED <<vdc_configs, cache, registered, resolve_vars, clean_vars>>

\* One iteration of the loop of _read_vector_datacubes_as_geodataframes, for
\* the config at idx and what the store answers for it.  An error leaves the
\* function, and the list gdfs with it.
ReadOne(Envs) ==
    /\ pc = "read"
    /\ ~read_complete(idx, vdc_configs)
    /\ idx <= Len(vdc_configs)
    /\ \E env \in Envs :
          LET r == read_one(vdc_configs[idx], env)
          IN /\ step' = [kind |-> "read", k |-> idx, env |-> env, raised |-> r.raised,
                         opened_before |-> opened, gdfs_before |-> gdfs]
             /\ opened' = opened \o r.opens
             /\ IF r.raised # None
                THEN /\ pc' = "raised"
                     /\ gdfs' = <<>>
                     /\ UNCHANGED idx
                ELSE /\ gdfs' = gdfs \o r.value
                     /\ idx' = idx + 1
                     /\ UNCHANGED pc
    /\ UNCHANGED <<vdc_configs, cache, registered, mpos, runs, cache0, registered0,
                   resolve_vars, clean_vars>>

\* _read_vector_datacubes_as_geodataframes returns gdfs (lines 278, 169).
FinishRead ==
    /\ pc = "read"
    /\ read_complete(idx, vdc_configs)
    /\ pc' = "materialize"
    /\ mpos' = 1
    /\ step' = [kind |-> "read_returned"]
    /\ UNCHANGED <<vdc_configs, idx, gdfs, opened, cache, registered, runs, cache0,
                   registered0, resolve_vars, clean_vars>>

\* One iteration of the loop over gdfs (lines 173-179).
Materialize ==
    /\ pc = "materialize"
    /\ mpos <= Len(gdfs)
    /\ LET gdf == gdfs[mpos]
           place_group_config == gdf.attrs
           r == _create_place_group(cache, place_group_config, gdf)
       IN /\ step' = [kind |-> "materialize", k |-> mpos, gdf |-> gdf, raised |-> r.raised,
                      cache_before |-> cache, registered_before |-> registered]
          /\ cache' = r.cache
          /\ IF r.raised # None
             THEN /\ pc' = "raised"
                  /\ UNCHANGED <<registered, mpos>>
             ELSE /\ registered' = Append(registered,
                                          [id |-> r.place_group_id,
                                           dataset_ids |-> get(place_group_config,
                                                               "DatasetRefs", <<>>)])
                  /\ mpos' = mpos + 1
                  /\ UNCHANGED pc
    /\ UNCHANGED <<vdc_configs, idx, gdfs, opened, runs, cache0, registered0,
                   resolve_vars, clean_vars>>

\* update_places returns (line 180).
FinishRun ==
    /\ pc = "materialize"
    /\ mpos > Len(gdfs)
    /\ pc' = "returned"
    /\ step' = [kind |-> "returned"]
    /\ UNCHANGED <<vdc_configs, idx, gdfs, opened, cache, registered, mpos, runs, cache0,
                   registered0, resolve_vars, clean_vars>>

(***************************************************************************)
(* The inputs of update_places.                                            *)
(***************************************************************************)
ConfigA == [StoreInstanceId |-> <<"S", "1">>, Path |-> <<"r">>,
            Identifier |-> <<"A">>, Title |-> <<"T">>]
ConfigB == [StoreInstanceId |-> <<"S", "1">>, Path |-> <<"p">>,
            Identifier |-> <<"B">>, Title |-> <<"U">>, DatasetRefs |-> <<"d">>]

UpdateConfigs ==
    {ConfigA, ConfigB,
     [PlaceGroupRef |-> <<>>] @@ ConfigA,
     [PlaceGroupRef |-> <<"g">>] @@ ConfigA,
     [Split |-> TRUE] @@ ConfigB}

ReadConfigs ==
    {ConfigA,
     [Split |-> TRUE] @@ ConfigA,
     [Split |-> TRUE, LabelCoord |-> "geometry"] @@ ConfigA,
     [Split |-> TRUE, LabelCoord |-> "site"] @@ ConfigA,
     [Split |-> FALSE, LabelCoord |-> "site"] @@ ConfigA,
     del(ConfigA, "Title"),
     [Split |-> TRUE] @@ del(ConfigA, "Title")}

VdcZarr == VDC_OPENER_PREFIX \o <<":", "z">>
VdcNetcdf == VDC_OPENER_PREFIX \o <<":", "n">>
DatasetZarr == <<"d", "a", "t", "a", "s", "e", "t", ":", "z">>
OpenerIds == {VdcZarr, VdcNetcdf, DatasetZarr}

FeatureDate == ("date" :> "2021-03-04")
FeatureTwo == ("datetime" :> "2020-01-02T03:04:05Z") @@ ("date" :> "5 Jan 2022 10:30")
FeatureBad == ("date" :> "garbage")

\* A cube: its geometry coordinates, the values of each coordinate along the
\* geometry dimension, and the features of each geometry.
Cube(sites, rows) ==
    [geom_coords |-> <<"geometry">>,
     coords |-> [geometry |-> [i \in 1..Len(rows) |-> <<"P", DecStr(i)[1]>>],
                 site |-> sites],
     rows |-> rows]

CubeDate == Cube(<<<<"n">>>>, <<<<FeatureDate>>>>)
CubeBad == Cube(<<<<"n">>>>, <<<<FeatureDate, FeatureBad>>>>)
CubeSites == Cube(<<<<"n">>, <<"s">>>>, <<<<FeatureDate>>, <<FeatureTwo>>>>)

Opens(vdc) == [kind |-> "cube", vdc |-> vdc]
OpenFails == [kind |-> "raise"]

UpdateEnvs ==
    [data_opener_ids : {<<VdcZarr>>},
     open : {OpenFails, Opens(CubeDate), Opens(CubeBad), Opens(CubeSites)},
     same_object : {FALSE}]
    \cup [data_opener_ids : {<<DatasetZarr>>},
          open : {Opens(CubeDate)},
          same_object : {FALSE}]

ReadEnvs ==
    [data_opener_ids : SeqUpTo(OpenerIds, MaxOpeners),
     open : {Opens(CubeDate)},
     same_object : {FALSE}]
    \cup [data_opener_ids : {<<VdcZarr>>},
          open : {OpenFails, Opens(CubeSites)},
          same_object : BOOLEAN]

(***************************************************************************)
(* The specifications.                                                     *)
(***************************************************************************)
ResolveIdle == all_dataset_configs = <<>> /\ scan = NoScan /\ rstatus = "returned"
CleanIdle == properties = <<>> /\ raw_properties = <<>> /\ cstatus = "returned"

\* update_places over the configs of a context, run after run.
Init == UpdateInit(UpdateConfigs) /\ ResolveIdle /\ CleanIdle
Next ==
    \/ StartRun
    \/ ReadOne(UpdateEnvs)
    \/ FinishRead
    \/ Materialize
    \/ FinishRun
Spec == Init /\ [][Next]_vars

\* The load loop over configs with and without Split.
ReadInit == UpdateInit(ReadConfigs) /\ ResolveIdle /\ CleanIdle
ReadNext ==
    \/ StartRun
    \/ ReadOne(ReadEnvs)
    \/ FinishRead
SpecRead == ReadInit /\ [][ReadNext]_vars

UpdateIdle == UpdateInit({})

\* get_dataset_configs_from_stores over the entries of a pool.
SpecResolveInit == ResolveInit /\ CleanIdle /\ UpdateIdle
ResolveNext ==
    \/ ScanEntry
    \/ ReturnConfigs
SpecResolve == SpecResolveInit /\ [][ResolveNext]_vars

\* _clean_time_name on one property mapping.
SpecCleanInit == CleanInit /\ ResolveIdle /\ UpdateIdle
CleanNext == CleanTimeName
SpecClean == SpecCleanInit /\ [][CleanNext]_vars

(***************************************************************************)
(* Properties of the resolution (SpecResolve).                             *)
(***************************************************************************)
Scanned == scan.kind = "entry"
ScannedHasPath == "Path" \in DOMAIN scan.store_dataset_config
ScannedPath == scan.store_dataset_config["Path"]
ScannedPattern == dataset_id_pattern(scan.store_dataset_config)
ScannedHasIdentifier == "Identifier" \in DOMAIN scan.store_dataset_config
ScannedHasStoreInstanceId == "StoreInstanceId" \in DOMAIN scan.store_dataset_config
NoErrorRaised == rstatus \in {"scanning", "returned"}
PathHasWildcard(path) == \E i \in 1..Len(path) : path[i] \in {"*", "?"}

\* What the iteration that ran last appended.
Emitted == SubSeq(all_dataset_configs, Len(scan.before) + 1, Len(all_dataset_configs))

\* The positions of the advertised ids that match the pattern, and the n-th of them.
MatchingPositions ==
    {k \in 1..Len(scan.store_dataset_ids) : fnmatch(scan.store_dataset_ids[k], ScannedPattern)}
NthMatching(n) ==
    CHOOSE k \in MatchingPositions : Cardinality({m \in MatchingPositions : m <= k}) = n

Synthesized(store_instance_id, path) == store_instance_id \o <<"~">> \o path

\* C1: the expansion of an entry with a wildcard Path and an Identifier fails
\* with InvalidServerConfig, whatever ids the store advertises.
C1_WildcardWithIdentifierFails ==
    (Scanned /\ ScannedHasPath /\ PathHasWildcard(ScannedPath) /\ ScannedHasIdentifier)
        => rstatus = InvalidServerConfig

\* One config per advertised id that matches the pattern, in the order of the
\* store's enumeration, with Path the matched id and Identifier the store
\* instance id, "~", the id.
ExpandedByPattern ==
    /\ NoErrorRaised
    /\ SubSeq(all_dataset_configs, 1, Len(scan.before)) = scan.before
    /\ Len(Emitted) = Cardinality(MatchingPositions)
    /\ \A n \in 1..Len(Emitted) :
          LET id == scan.store_dataset_ids[NthMatching(n)]
          IN /\ Emitted[n]["Path"] = id
             /\ Emitted[n]["Identifier"] = Synthesized(scan.store_instance_id, id)

\* C4: a wildcard entry without Identifier appends one config per advertised
\* id that matches the pattern, in the order of the store's enumeration, with
\* Path the matched id and Identifier the store instance id, "~", the id.
C4_WildcardExpansion ==
    (Scanned /\ ScannedHasPath /\ PathHasWildcard(ScannedPath) /\ ~ScannedHasIdentifier)
        => ExpandedByPattern

\* The same for the entries that have no StoreInstanceId of their own, an
\* entry without Path taken with the pattern "*".
WildcardExpansionOfPlainEntry ==
    (Scanned /\ PathHasWildcard(ScannedPattern) /\ ~ScannedHasIdentifier
       /\ ~ScannedHasStoreInstanceId)
        => ExpandedByPattern

\* Exactly one config, appended without asking the store for its ids, with the
\* Path of the entry, the id of the owning store, and the Identifier of the
\* entry if it has one, else the store instance id, "~", the Path.
ExpandedLiterally ==
    /\ NoErrorRaised
    /\ ~scan.consulted
    /\ SubSeq(all_dataset_configs, 1, Len(scan.before)) = scan.before
    /\ Len(Emitted) = 1
    /\ Emitted[1]["Path"] = ScannedPath
    /\ Emitted[1]["StoreInstanceId"] = scan.store_instance_id
    /\ Emitted[1]["Identifier"] =
          IF ScannedHasIdentifier THEN scan.store_dataset_config["Identifier"]
          ELSE Synthesized(scan.store_instance_id, ScannedPath)

\* C5: an entry with a literal Path appends exactly one config, without asking
\* the store for its ids; the config has the Path of the entry, the id of the
\* owning store, and the Identifier of the entry if it has one, else the store
\* instance id, "~", the Path.
C5_LiteralExpansion ==
    (Scanned /\ ScannedHasPath /\ ~PathHasWildcard(ScannedPath)) => ExpandedLiterally

\* The same for the entries that have no StoreInstanceId of their own.
LiteralExpansionOfPlainEntry ==
    (Scanned /\ ScannedHasPath /\ ~PathHasWildcard(ScannedPath)
       /\ ~ScannedHasStoreInstanceId)
        => ExpandedLiterally

(***************************************************************************)
(* Properties of the time normalisation (SpecClean).                       *)
(***************************************************************************)
AlternatesPresent == {k \in 1..Len(illegal_names) : illegal_names[k] \in DOMAIN raw_properties}
FirstAlternate == illegal_names[CHOOSE k \in AlternatesPresent : \A m \in AlternatesPresent : k <= m]

LastAlternate == illegal_names[CHOOSE k \in AlternatesPresent : \A m \in AlternatesPresent : k >= m]

\* C2 as claimed: only the first alternate present is parsed, stored under
\* "time" and removed; the other alternates present stay with their values.
C2_FirstMatchOnly ==
    (cstatus = "returned" /\ AlternatesPresent # {})
        => /\ "time" \in DOMAIN properties
           /\ properties["time"] = parse_isoformat(raw_properties[FirstAlternate])
           /\ FirstAlternate \notin DOMAIN properties
           /\ \A k \in AlternatesPresent :
                 illegal_names[k] # FirstAlternate
                    => /\ illegal_names[k] \in DOMAIN properties
                       /\ properties[illegal_names[k]] = raw_properties[illegal_names[k]]

\* C2 as amended: every alternate present is parsed and removed, in the fixed
\* order; "time" holds the value derived from the last alternate present, and
\* the properties with other names are as before.
C2_EveryAlternateReplaced ==
    (cstatus = "returned" /\ AlternatesPresent # {})
        => /\ "time" \in DOMAIN properties
           /\ properties["time"] = parse_isoformat(raw_properties[LastAlternate])
           /\ \A k \in 1..Len(illegal_names) : illegal_names[k] \notin DOMAIN properties
           /\ DOMAIN properties =
                 (DOMAIN raw_properties \ {illegal_names[k] : k \in 1..Len(illegal_names)})
                    \cup {"time"}

\* A mapping with "timestamp" and "date" of different values was normalised.
C2_Witness ==
    /\ cstatus = "returned"
    /\ {"timestamp", "date"} \subseteq DOMAIN raw_properties
    /\ parse_isoformat(raw_properties["timestamp"]) # parse_isoformat(raw_properties["date"])
    /\ properties["time"] = parse_isoformat(raw_properties["date"])

(***************************************************************************)
(* Properties of update_places (Spec).                                     *)
(***************************************************************************)
Materialized == step.kind = "materialize"
ReadStep == step.kind = "read"
Populated(place_group) == place_group.features # <<>>

\* C3: a cached record with populated features is never replaced nor changed
\* by a later materialization for its id.
C3_PopulatedRecordKept ==
    Materialized
        => \A id \in DOMAIN step.cache_before :
              Populated(step.cache_before[id])
                 => id \in DOMAIN cache /\ cache[id] = step.cache_before[id]

\* In a second run, a feature set with other features was materialized for an
\* id whose cached record was populated.
C3_Witness ==
    /\ Materialized /\ runs = 2 /\ step.raised = None
    /\ step.gdf.attrs["Identifier"] \in DOMAIN step.cache_before
    /\ Populated(step.cache_before[step.gdf.attrs["Identifier"]])
    /\ clean_features(step.gdf.features, 1).raised = None
    /\ <<clean_features(step.gdf.features, 1).value>>
          # cache[step.gdf.attrs["Identifier"]].features

\* An open_data call of the iteration that ran last failed.
OpenFailed ==
    /\ ReadStep
    /\ \E j \in 1..Len(step.env.data_opener_ids) :
          startswith(step.env.data_opener_ids[j], VDC_OPENER_PREFIX)
    /\ step.env.open.kind = "raise"

\* C7 as claimed: after a failed open the load loop goes on with the next config.
C7_OpenFailureContinues ==
    OpenFailed => pc = "read" /\ idx = step.k + 1

\* C7 as amended: a failed open leaves the load loop with the error; the loop
\* does not advance, the feature sets read so far are dropped, and nothing is
\* cached or registered in that run.
C7_OpenFailureAborts ==
    OpenFailed
        => /\ pc = "raised" /\ step.raised = DataStoreError
           /\ idx = step.k
           /\ gdfs = <<>>
           /\ Len(opened) = Len(step.opened_before) + 1
           /\ cache = cache0 /\ registered = registered0

\* The open of the first of two configs failed after an earlier run had
\* registered place groups.
C7_Witness ==
    /\ OpenFailed /\ step.k = 1 /\ Len(vdc_configs) = 2
    /\ runs = 2 /\ Len(registered) > 0

\* The feature set being materialized declares a PlaceGroupRef.
DeclaresPlaceGroupRef == Materialized /\ "PlaceGroupRef" \in DOMAIN step.gdf.attrs

NoEffect ==
    /\ pc = "raised" /\ step.raised = InvalidServerConfig
    /\ cache = step.cache_before
    /\ registered = step.registered_before

\* C9 as claimed: a PlaceGroupRef key with any value fails the materialization
\* with InvalidServerConfig before any effect.
C9_AnyPlaceGroupRefFails == DeclaresPlaceGroupRef => NoEffect

\* C9 as amended: a PlaceGroupRef with a non-empty value fails the
\* materialization with InvalidServerConfig before any effect: the cache and
\* the registrations are as before.
C9_NonEmptyPlaceGroupRefFails ==
    (DeclaresPlaceGroupRef /\ step.gdf.attrs["PlaceGroupRef"] # <<>>) => NoEffect

\* A feature set with a non-empty PlaceGroupRef was materialized second, for an
\* id that was not cached.
C9_Witness ==
    /\ DeclaresPlaceGroupRef /\ step.gdf.attrs["PlaceGroupRef"] # <<>>
    /\ step.k = 2
    /\ step.gdf.attrs["Identifier"] \notin DOMAIN cache

\* C10: nothing is cached or registered before the load loop has run through
\* all configs; an error of the load loop leaves cache and registrations as
\* they were when the run started; an error in the materialization of the
\* k-th feature set leaves the first k-1 place groups cached and registered.
C10_ReadBeforeMaterialize ==
    /\ (cache # cache0 \/ registered # registered0)
          => idx > Len(vdc_configs) /\ pc \in {"materialize", "returned", "raised"}
    /\ (pc = "raised" /\ ReadStep) => (cache = cache0 /\ registered = registered0)
    /\ (pc = "raised" /\ Materialized)
          => /\ Len(registered) = Len(registered0) + step.k - 1
             /\ SubSeq(registered, 1, Len(registered0)) = registered0
             /\ \A j \in 1..(step.k - 1) :
                   /\ gdfs[j].attrs["Identifier"] \in DOMAIN cache
                   /\ registered[Len(registered0) + j].id = gdfs[j].attrs["Identifier"]

\* The materialization of the second feature set failed on a time value.
C10_Witness ==
    /\ pc = "raised" /\ Materialized /\ step.k = 2 /\ step.raised = ParserError
    /\ Len(registered) = Len(registered0) + 1

(***************************************************************************)
(* Properties of the load loop (SpecRead).                                 *)
(***************************************************************************)
ReadConfig == vdc_configs[step.k]
VdcOpenerPositions ==
    {j \in 1..Len(step.env.data_opener_ids) :
        startswith(step.env.data_opener_ids[j], VDC_OPENER_PREFIX)}
ReadGdfs == SubSeq(gdfs, Len(step.gdfs_before) + 1, Len(gdfs))

\* C8: an iteration calls open_data once, with the first opener id that starts
\* with "vectordatacube"; without such an id it calls nothing, appends no
\* feature set, raises nothing and the loop goes on with the next config.
C8_FirstVdcOpener ==
    ReadStep
        => IF VdcOpenerPositions = {}
           THEN /\ opened = step.opened_before
                /\ gdfs = step.gdfs_before
                /\ step.raised = None /\ pc = "read" /\ idx = step.k + 1
           ELSE \E j \in VdcOpenerPositions :
                   /\ \A m \in VdcOpenerPositions : j <= m
                   /\ opened = Append(step.opened_before,
                                      [data_id |-> ReadConfig["Path"],
                                       opener_id |-> step.env.data_opener_ids[j]])

\* The second config had no vector data cube opener, after the first was opened.
C8_Witness ==
    /\ ReadStep /\ step.k = 2 /\ VdcOpenerPositions = {}
    /\ Len(step.env.data_opener_ids) > 0
    /\ Len(opened) = 1 /\ Len(gdfs) > 0

\* A config with Split and a Title was read from a cube that opened.
SplitRead ==
    /\ ReadStep /\ VdcOpenerPositions # {} /\ step.env.open.kind = "cube"
    /\ "Split" \in DOMAIN ReadConfig /\ ReadConfig["Split"]
    /\ "Title" \in DOMAIN ReadConfig

GeometryName == step.env.open.vdc.geom_coords[1]
GeometryCount == Len(step.env.open.vdc.coords[GeometryName])

\* One feature set per index of the geometry coordinate, titled and identified
\* with the given extensions.
SplitInto(ext) ==
    /\ step.raised = None
    /\ Len(ReadGdfs) = GeometryCount
    /\ \A i \in 1..Len(ReadGdfs) :
          /\ ReadGdfs[i].attrs["Title"] = ReadConfig["Title"] \o <<" ", "-", " ">> \o ext[i]
          /\ ReadGdfs[i].attrs["Identifier"] = ReadConfig["Identifier"] \o <<"_">> \o ext[i]

Positions == [i \in 1..GeometryCount |-> DecStr(i)]

\* C6 as claimed: without LabelCoord the extensions are the positions 1, 2, ...;
\* with any LabelCoord they are the label values of that coordinate.
C6_LabelsWheneverGiven ==
    SplitRead
        => IF "LabelCoord" \in DOMAIN ReadConfig
           THEN SplitInto(step.env.open.vdc.coords[ReadConfig["LabelCoord"]])
           ELSE SplitInto(Positions)

\* C6 as amended: without LabelCoord the extensions are the positions 1, 2, ...;
\* with a LabelCoord other than the geometry coordinate they are the label
\* values of that coordinate.
C6_LabelsOfDistinctCoord ==
    SplitRead
        => IF "LabelCoord" \notin DOMAIN ReadConfig THEN SplitInto(Positions)
           ELSE ReadConfig["LabelCoord"] # GeometryName
                   => SplitInto(step.env.open.vdc.coords[ReadConfig["LabelCoord"]])

\* A cube with the sites n and s was split by the coordinate site.
C6_Witness ==
    /\ SplitRead
    /\ "LabelCoord" \in DOMAIN ReadConfig /\ ReadConfig["LabelCoord"] = "site"
    /\ Len(ReadGdfs) = 2
    /\ ReadGdfs[1].attrs["Title"] = <<"T", " ", "-", " ", "n">>
    /\ ReadGdfs[2].attrs["Title"] = <<"T", " ", "-", " ", "s">>

====
